---- MODULE Spec2Model ----
(***************************************************************************)
(* A model of db.MemoryStore (src/db/memorystore.go): five maps keyed by   *)
(* ID behind one sync.RWMutex, called by concurrent request handlers.      *)
(* Entities are pointers; their immutable fields are the static tables     *)
(* Account, Order, Authorization, Challenge, Certificate below, their      *)
(* mutable parts (an order's Status, the embedded per-entity RWMutex) are   *)
(* state variables indexed by pointer.                                     *)
(***************************************************************************)
EXTENDS Integers, Sequences, FiniteSets, TLC

\* ------------------------------------------------------------------ bounds
NumThreads == 2
MaxCalls == 2
MaxClock == 2

Threads == 1..NumThreads

\* calls allowed in the single-collection specifications
DeepCalls == MaxCalls + 1

\* ------------------------------------------------------- the callers' data
Nil == "nil"
NoErr == "nil"

\* *core.Account values the callers hand in: ID and Key ("nil" is a nil Key)
Account ==
  [ acctE  |-> [ID |-> "",  Key |-> "k0"],
    acctEN |-> [ID |-> "",  Key |-> Nil],
    acctA  |-> [ID |-> "a", Key |-> "k1"],
    acctA2 |-> [ID |-> "a", Key |-> "k2"],
    acctAN |-> [ID |-> "a", Key |-> Nil],
    acctB  |-> [ID |-> "b", Key |-> "k3"],
    acctC  |-> [ID |-> "c", Key |-> "k4"] ]

\* *core.Order values: ID, expiry (a clock reading), the Status the caller
\* constructed it with, and whether its state is structurally invalid
Order ==
  [ ordE  |-> [ID |-> "",  Expires |-> 1, Status |-> "pending", Malformed |-> FALSE],
    ordA  |-> [ID |-> "a", Expires |-> 1, Status |-> "pending", Malformed |-> FALSE],
    ordA2 |-> [ID |-> "a", Expires |-> 2, Status |-> "",        Malformed |-> FALSE],
    ordB  |-> [ID |-> "b", Expires |-> 2, Status |-> "pending", Malformed |-> FALSE],
    ordM  |-> [ID |-> "b", Expires |-> 2, Status |-> "pending", Malformed |-> TRUE] ]

Authorization ==
  [ azE  |-> [ID |-> ""],
    azA  |-> [ID |-> "a"],
    azA2 |-> [ID |-> "a"],
    azB  |-> [ID |-> "b"] ]

Challenge ==
  [ chE  |-> [ID |-> ""],
    chA  |-> [ID |-> "a"],
    chA2 |-> [ID |-> "a"],
    chB  |-> [ID |-> "b"] ]

\* a []byte: a nil slice, or a non-nil slice of bytes (possibly of length 0)
NilBytes == [isNil |-> TRUE, bytes |-> <<>>]
Bytes(s) == [isNil |-> FALSE, bytes |-> s]

Certificate ==
  [ crtE  |-> [ID |-> "",  DER |-> Bytes(<<1>>)],
    crtA  |-> [ID |-> "a", DER |-> Bytes(<<1, 2>>)],
    crtA2 |-> [ID |-> "a", DER |-> Bytes(<<1>>)],
    crtB  |-> [ID |-> "b", DER |-> Bytes(<<1, 2>>)],
    crtC  |-> [ID |-> "c", DER |-> NilBytes] ]

AccountPtrs == DOMAIN Account
OrderPtrs == DOMAIN Order
AuthorizationPtrs == DOMAIN Authorization
ChallengePtrs == DOMAIN Challenge
CertificatePtrs == DOMAIN Certificate

\* the lookup keys the callers use
LookupIDs == {"a", "b"}
\* the DER queries the callers use
Queries == { Bytes(<<1, 2>>), Bytes(<<1>>), Bytes(<<2>>), Bytes(<<1, 2, 3>>),
             Bytes(<<>>), NilBytes }

\* ---------------------------------------------------------------- Go maps
EmptyMap == [x \in {} |-> Nil]
Put(m, k, v) == [x \in (DOMAIN m) \cup {k} |-> IF x = k THEN v ELSE m[x]]
Delete(m, k) == [x \in (DOMAIN m) \ {k} |-> m[x]]
\* m[k]: the zero value (a nil pointer) when the key is missing
Lookup(m, k) == IF k \in DOMAIN m THEN m[k] ELSE Nil
Size(m) == Cardinality(DOMAIN m)

\* history: one more entity successfully added under the ID k
Record(a, k, e) == Put(a, k, (IF k \in DOMAIN a THEN a[k] ELSE {}) \cup {e})

VARIABLES
  accountsByID, ordersByID, authorizationsByID, challengesByID,
  certificatesByID,  \* the five maps of MemoryStore
  clk,               \* the reading of the injected clock
  mu,                \* the store's embedded sync.RWMutex
  orderMu, authzMu, chalMu, \* the RWMutex embedded in each order, authz, challenge
  orderStatus,       \* the Status field of each order object
  th,                \* each calling thread: position and locals of its call
  calls,             \* the number of calls started so far
  added,             \* history: per collection, ID -> the entities whose Add
                     \* succeeded since the last Update/Revoke on the ID
  nAdded,            \* history: per collection, number of successful Adds
  revoked            \* history: per certificate, number of Revoke calls on it

maps == <<accountsByID, ordersByID, authorizationsByID, challengesByID,
          certificatesByID>>
entityMus == <<orderMu, authzMu, chalMu>>
history == <<added, nAdded, revoked>>
vars == <<maps, clk, mu, entityMus, orderStatus, th, calls, history>>

Kinds == {"account", "order", "authz", "challenge", "certificate"}

\* a thread outside any call
Idle == [pc |-> "idle", op |-> "none", ptr |-> Nil, id |-> "", der |-> NilBytes,
         n |-> 0, err |-> NoErr, res |-> Nil, seen |-> EmptyMap,
         st |-> "", now |-> 0,
         held |-> {}]  \* the entities whose read lock the thread took and
                       \* has not released

FreeMu == [w |-> 0, r |-> {}]
FreeEntityMu == [w |-> 0, r |-> 0]

NewMemoryStore ==
  /\ accountsByID = EmptyMap
  /\ ordersByID = EmptyMap
  /\ authorizationsByID = EmptyMap
  /\ challengesByID = EmptyMap
  /\ certificatesByID = EmptyMap
  /\ mu = FreeMu

Init ==
  /\ NewMemoryStore
  /\ clk = 0
  /\ orderMu = [o \in OrderPtrs |-> FreeEntityMu]
  /\ authzMu = [a \in AuthorizationPtrs |-> FreeEntityMu]
  /\ chalMu = [c \in ChallengePtrs |-> FreeEntityMu]
  /\ orderStatus = [o \in OrderPtrs |-> Order[o].Status]
  /\ th = [t \in Threads |-> Idle]
  /\ calls = 0
  /\ added = [k \in Kinds |-> EmptyMap]
  /\ nAdded = [k \in Kinds |-> 0]
  /\ revoked = [c \in CertificatePtrs |-> 0]

\* --------------------------------------------------------- calls and locks
WriteOps == {"AddAccount", "UpdateAccountByID", "AddOrder", "AddAuthorization",
             "AddChallenge", "AddCertificate", "RevokeCertificate"}
ReadOps == {"GetAccountByID", "GetOrderByID", "GetAuthorizationByID",
            "GetChallengeByID", "GetCertificateByID", "GetCertificateByDER"}

\* a handler thread enters a store method; its first statement is m.Lock()
\* or m.RLock()
Begin(t, op, ptr, id, der) ==
  /\ th[t].pc = "idle"
  /\ th' = [th EXCEPT ![t] = [Idle EXCEPT !.pc = "lock", !.op = op, !.ptr = ptr,
                                          !.id = id, !.der = der,
                                          !.held = th[t].held]]
  /\ calls' = calls + 1
  /\ UNCHANGED <<maps, clk, mu, entityMus, orderStatus, history>>

\* sync.RWMutex: Lock waits until no reader and no writer holds the mutex
CanLock(m) == m.w = 0 /\ m.r = {}
\* sync.RWMutex: RLock waits while a writer holds the mutex
CanRLock(m) == m.w = 0

\* a write operation that takes the mutex in shared mode (m.RLock())
LockShared(t) ==
  /\ th[t].pc = "lock"
  /\ th[t].op \in WriteOps
  /\ CanRLock(mu)
  /\ mu' = [mu EXCEPT !.r = @ \cup {t}]
  /\ th' = [th EXCEPT ![t].pc = "body"]
  /\ UNCHANGED <<maps, clk, entityMus, orderStatus, calls, history>>

\* m.Lock() as the first statement of a write operation
Lock(t) ==
  /\ th[t].pc = "lock"
  /\ th[t].op \in WriteOps
  /\ CanLock(mu)
  /\ mu' = [mu EXCEPT !.w = t]
  /\ th' = [th EXCEPT ![t].pc = "body"]
  /\ UNCHANGED <<maps, clk, entityMus, orderStatus, calls, history>>

\* a read operation that does not wait for the writer
RLockIgnoringWriter(t) ==
  /\ th[t].pc = "lock"
  /\ th[t].op \in ReadOps
  /\ mu' = [mu EXCEPT !.r = @ \cup {t}]
  /\ th' = [th EXCEPT ![t].pc = "body"]
  /\ UNCHANGED <<maps, clk, entityMus, orderStatus, calls, history>>

\* m.RLock() as the first statement of a read operation
RLock(t) ==
  /\ th[t].pc = "lock"
  /\ th[t].op \in ReadOps
  /\ CanRLock(mu)
  /\ mu' = [mu EXCEPT !.r = @ \cup {t}]
  /\ th' = [th EXCEPT ![t].pc = "body"]
  /\ UNCHANGED <<maps, clk, entityMus, orderStatus, calls, history>>

\* a write operation that returns without m.Unlock()
UnlockMissing(t) ==
  /\ th[t].pc = "ret"
  /\ th[t].op \in WriteOps
  /\ th' = [th EXCEPT ![t] = [Idle EXCEPT !.held = th[t].held]]
  /\ UNCHANGED <<maps, clk, mu, entityMus, orderStatus, calls, history>>

\* the deferred m.Unlock() runs after the results are set; the call returns
Unlock(t) ==
  /\ th[t].pc = "ret"
  /\ th[t].op \in WriteOps
  /\ mu' = [mu EXCEPT !.w = 0]
  /\ th' = [th EXCEPT ![t] = [Idle EXCEPT !.held = th[t].held]]
  /\ UNCHANGED <<maps, clk, entityMus, orderStatus, calls, history>>

\* the deferred m.RUnlock() of a read operation; the call returns (or, after
\* a panic, the unwinding goes on to the caller)
RUnlock(t) ==
  /\ th[t].pc = "ret"
  /\ th[t].op \in ReadOps
  /\ mu' = [mu EXCEPT !.r = @ \ {t}]
  /\ th' = [th EXCEPT ![t] = [Idle EXCEPT !.held = th[t].held]]
  /\ UNCHANGED <<maps, clk, entityMus, orderStatus, calls, history>>

\* the results of a call, set by its return statement
Return(t, n, err, res) ==
  th' = [th EXCEPT ![t].pc = "ret", ![t].n = n, ![t].err = err, ![t].res = res]

\* ---------------------------------------------------------------- accounts
GetAccountByID(t) ==
  /\ th[t].pc = "body" /\ th[t].op = "GetAccountByID"
  /\ Return(t, 0, NoErr, Lookup(accountsByID, th[t].id))
  /\ UNCHANGED <<maps, clk, mu, entityMus, orderStatus, calls, history>>

\* UpdateAccountByID as an upsert: no test that the account exists
UpdateAccountByIDUpsert(t) ==
  /\ th[t].pc = "body" /\ th[t].op = "UpdateAccountByID"
  /\ accountsByID' = Put(accountsByID, th[t].id, th[t].ptr)
  /\ added' = [added EXCEPT !["account"] = Delete(@, th[t].id)]
  /\ Return(t, 0, NoErr, Nil)
  /\ UNCHANGED <<ordersByID, authorizationsByID, challengesByID, certificatesByID,
                 clk, mu, entityMus, orderStatus, calls, nAdded, revoked>>

UpdateAccountByID(t) ==
  /\ th[t].pc = "body" /\ th[t].op = "UpdateAccountByID"
  /\ IF Lookup(accountsByID, th[t].id) = Nil
       THEN /\ Return(t, 0, "NotFound", Nil)
            /\ UNCHANGED <<accountsByID, added>>
       ELSE /\ accountsByID' = Put(accountsByID, th[t].id, th[t].ptr)
            /\ added' = [added EXCEPT !["account"] = Delete(@, th[t].id)]
            /\ Return(t, 0, NoErr, Nil)
  /\ UNCHANGED <<ordersByID, authorizationsByID, challengesByID, certificatesByID,
                 clk, mu, entityMus, orderStatus, calls, nAdded, revoked>>

\* AddAccount testing the key before the ID
AddAccountCheckKeyFirst(t) ==
  /\ th[t].pc = "body" /\ th[t].op = "AddAccount"
  /\ LET acct == Account[th[t].ptr] IN
       IF acct.Key = Nil
         THEN Return(t, 0, "MissingRequiredField", Nil)
       ELSE IF acct.ID = ""
         THEN Return(t, 0, "EmptyIdentifier", Nil)
       ELSE IF acct.ID \in DOMAIN accountsByID
         THEN Return(t, 0, "AlreadyExists", Nil)
       ELSE th' = [th EXCEPT ![t].pc = "insert", ![t].seen = accountsByID]
  /\ UNCHANGED <<maps, clk, mu, entityMus, orderStatus, calls, history>>

\* AddAccount without the presence test: a second Add overwrites
AddAccountCheckOverwrite(t) ==
  /\ th[t].pc = "body" /\ th[t].op = "AddAccount"
  /\ LET acct == Account[th[t].ptr] IN
       IF acct.ID = ""
         THEN Return(t, 0, "EmptyIdentifier", Nil)
       ELSE IF acct.Key = Nil
         THEN Return(t, 0, "MissingRequiredField", Nil)
       ELSE th' = [th EXCEPT ![t].pc = "insert", ![t].seen = accountsByID]
  /\ UNCHANGED <<maps, clk, mu, entityMus, orderStatus, calls, history>>

\* AddAccount testing the presence before the key
AddAccountCheckPresenceFirst(t) ==
  /\ th[t].pc = "body" /\ th[t].op = "AddAccount"
  /\ LET acct == Account[th[t].ptr] IN
       IF acct.ID = ""
         THEN Return(t, 0, "EmptyIdentifier", Nil)
       ELSE IF acct.ID \in DOMAIN accountsByID
         THEN Return(t, 0, "AlreadyExists", Nil)
       ELSE IF acct.Key = Nil
         THEN Return(t, 0, "MissingRequiredField", Nil)
       ELSE th' = [th EXCEPT ![t].pc = "insert", ![t].seen = accountsByID]
  /\ UNCHANGED <<maps, clk, mu, entityMus, orderStatus, calls, history>>

\* AddAccount up to the presence test
AddAccountCheck(t) ==
  /\ th[t].pc = "body" /\ th[t].op = "AddAccount"
  /\ LET acct == Account[th[t].ptr] IN
       IF acct.ID = ""
         THEN Return(t, 0, "EmptyIdentifier", Nil)
       ELSE IF acct.Key = Nil
         THEN Return(t, 0, "MissingRequiredField", Nil)
       ELSE IF acct.ID \in DOMAIN accountsByID
         THEN Return(t, 0, "AlreadyExists", Nil)
       ELSE th' = [th EXCEPT ![t].pc = "insert", ![t].seen = accountsByID]
  /\ UNCHANGED <<maps, clk, mu, entityMus, orderStatus, calls, history>>

\* AddAccount returning the length taken before the assignment
AddAccountInsertOldLen(t) ==
  /\ th[t].pc = "insert" /\ th[t].op = "AddAccount"
  /\ LET id == Account[th[t].ptr].ID
         new == Put(th[t].seen, id, th[t].ptr) IN
       /\ accountsByID' = new
       /\ Return(t, Size(th[t].seen), NoErr, Nil)
       /\ added' = [added EXCEPT !["account"] = Record(@, id, th[t].ptr)]
       /\ nAdded' = [nAdded EXCEPT !["account"] = @ + 1]
  /\ UNCHANGED <<ordersByID, authorizationsByID, challengesByID, certificatesByID,
                 clk, mu, entityMus, orderStatus, calls, revoked>>

\* the map assignment and the return of the new length
AddAccountInsert(t) ==
  /\ th[t].pc = "insert" /\ th[t].op = "AddAccount"
  /\ LET id == Account[th[t].ptr].ID
         new == Put(th[t].seen, id, th[t].ptr) IN
       /\ accountsByID' = new
       /\ Return(t, Size(new), NoErr, Nil)
       /\ added' = [added EXCEPT !["account"] = Record(@, id, th[t].ptr)]
       /\ nAdded' = [nAdded EXCEPT !["account"] = @ + 1]
  /\ UNCHANGED <<ordersByID, authorizationsByID, challengesByID, certificatesByID,
                 clk, mu, entityMus, orderStatus, calls, revoked>>

\* ------------------------------------------------------------------ orders
\* order.GetStatus(clk): the status the order's state and the clock give, or
\* an error for a structurally invalid order
GetStatus(o, now) ==
  IF Order[o].Malformed THEN [status |-> "", err |-> "invalid"]
  ELSE IF now >= Order[o].Expires THEN [status |-> "expired", err |-> NoErr]
  ELSE [status |-> "pending", err |-> NoErr]

\* AddOrder: order.RLock() and the read of order.ID
AddOrderReadID(t) ==
  /\ th[t].pc = "body" /\ th[t].op = "AddOrder"
  /\ orderMu[th[t].ptr].w = 0
  /\ orderMu' = [orderMu EXCEPT ![th[t].ptr].r = @ + 1]
  /\ th' = [th EXCEPT ![t].pc = "check", ![t].id = Order[th[t].ptr].ID,
                        ![t].held = @ \cup {th[t].ptr}]
  /\ UNCHANGED <<maps, clk, mu, authzMu, chalMu, orderStatus, calls, history>>

\* AddOrder without the presence test: a second Add overwrites
AddOrderCheckOverwrite(t) ==
  /\ th[t].pc = "check" /\ th[t].op = "AddOrder"
  /\ IF th[t].id = ""
       THEN /\ Return(t, 0, "EmptyIdentifier", Nil)
            /\ UNCHANGED orderMu
       ELSE /\ orderMu' = [orderMu EXCEPT ![th[t].ptr].r = @ - 1]
            /\ th' = [th EXCEPT ![t].pc = "insert", ![t].seen = ordersByID,
                                ![t].held = @ \ {th[t].ptr}]
  /\ UNCHANGED <<maps, clk, mu, authzMu, chalMu, orderStatus, calls, history>>

\* AddOrder: the empty-ID return (which skips order.RUnlock()), then
\* order.RUnlock() and the presence test
AddOrderCheck(t) ==
  /\ th[t].pc = "check" /\ th[t].op = "AddOrder"
  /\ IF th[t].id = ""
       THEN /\ Return(t, 0, "EmptyIdentifier", Nil)
            /\ UNCHANGED orderMu
       ELSE /\ orderMu' = [orderMu EXCEPT ![th[t].ptr].r = @ - 1]
            /\ IF th[t].id \in DOMAIN ordersByID
                 THEN th' = [th EXCEPT ![t].pc = "ret", ![t].n = 0,
                                       ![t].err = "AlreadyExists",
                                       ![t].held = @ \ {th[t].ptr}]
                 ELSE th' = [th EXCEPT ![t].pc = "insert", ![t].seen = ordersByID,
                                       ![t].held = @ \ {th[t].ptr}]
  /\ UNCHANGED <<maps, clk, mu, authzMu, chalMu, orderStatus, calls, history>>

\* AddOrder without the map assignment
AddOrderInsertNoStore(t) ==
  /\ th[t].pc = "insert" /\ th[t].op = "AddOrder"
  /\ LET new == Put(th[t].seen, th[t].id, th[t].ptr) IN
       /\ ordersByID' = th[t].seen
       /\ Return(t, Size(new), NoErr, Nil)
       /\ added' = [added EXCEPT !["order"] = Record(@, th[t].id, th[t].ptr)]
       /\ nAdded' = [nAdded EXCEPT !["order"] = @ + 1]
  /\ UNCHANGED <<accountsByID, authorizationsByID, challengesByID, certificatesByID,
                 clk, mu, entityMus, orderStatus, calls, revoked>>

AddOrderInsert(t) ==
  /\ th[t].pc = "insert" /\ th[t].op = "AddOrder"
  /\ LET new == Put(th[t].seen, th[t].id, th[t].ptr) IN
       /\ ordersByID' = new
       /\ Return(t, Size(new), NoErr, Nil)
       /\ added' = [added EXCEPT !["order"] = Record(@, th[t].id, th[t].ptr)]
       /\ nAdded' = [nAdded EXCEPT !["order"] = @ + 1]
  /\ UNCHANGED <<accountsByID, authorizationsByID, challengesByID, certificatesByID,
                 clk, mu, entityMus, orderStatus, calls, revoked>>

\* GetOrderByID going on with the status of a failed computation
GetOrderByIDLookupIgnoreErr(t) ==
  /\ th[t].pc = "body" /\ th[t].op = "GetOrderByID"
  /\ IF th[t].id \in DOMAIN ordersByID
       THEN LET order == ordersByID[th[t].id]
                s == GetStatus(order, clk) IN
              th' = [th EXCEPT ![t].pc = "olock", ![t].ptr = order,
                               ![t].st = s.status, ![t].now = clk]
       ELSE Return(t, 0, NoErr, Nil)
  /\ UNCHANGED <<maps, clk, mu, entityMus, orderStatus, calls, history>>

\* GetOrderByID: the map lookup and order.GetStatus(m.clk); a failed status
\* computation panics, and the unwinding runs the deferred m.RUnlock()
GetOrderByIDLookup(t) ==
  /\ th[t].pc = "body" /\ th[t].op = "GetOrderByID"
  /\ IF th[t].id \in DOMAIN ordersByID
       THEN LET order == ordersByID[th[t].id]
                s == GetStatus(order, clk) IN
              IF s.err # NoErr
                THEN th' = [th EXCEPT ![t].pc = "ret", ![t].err = "panic",
                                      ![t].ptr = order, ![t].now = clk]
                ELSE th' = [th EXCEPT ![t].pc = "olock", ![t].ptr = order,
                                      ![t].st = s.status, ![t].now = clk]
       ELSE Return(t, 0, NoErr, Nil)
  /\ UNCHANGED <<maps, clk, mu, entityMus, orderStatus, calls, history>>

\* GetOrderByID: order.Lock()
GetOrderByIDLock(t) ==
  /\ th[t].pc = "olock" /\ th[t].op = "GetOrderByID"
  /\ orderMu[th[t].ptr] = FreeEntityMu
  /\ orderMu' = [orderMu EXCEPT ![th[t].ptr].w = t]
  /\ th' = [th EXCEPT ![t].pc = "write"]
  /\ UNCHANGED <<maps, clk, mu, authzMu, chalMu, orderStatus, calls, history>>

\* GetOrderByID as a pure read: the computed status is not stored
GetOrderByIDPureRead(t) ==
  /\ th[t].pc = "write" /\ th[t].op = "GetOrderByID"
  /\ th' = [th EXCEPT ![t].pc = "ounlock", ![t].res = th[t].ptr]
  /\ UNCHANGED <<maps, clk, mu, entityMus, orderStatus, calls, history>>

\* GetOrderByID: order.Status = orderStatus; return order
GetOrderByIDWrite(t) ==
  /\ th[t].pc = "write" /\ th[t].op = "GetOrderByID"
  /\ orderStatus' = [orderStatus EXCEPT ![th[t].ptr] = th[t].st]
  /\ th' = [th EXCEPT ![t].pc = "ounlock", ![t].res = th[t].ptr]
  /\ UNCHANGED <<maps, clk, mu, entityMus, calls, history>>

\* GetOrderByID: the deferred order.Unlock(), which runs before m.RUnlock()
GetOrderByIDUnlock(t) ==
  /\ th[t].pc = "ounlock" /\ th[t].op = "GetOrderByID"
  /\ orderMu' = [orderMu EXCEPT ![th[t].ptr].w = 0]
  /\ th' = [th EXCEPT ![t].pc = "ret"]
  /\ UNCHANGED <<maps, clk, mu, authzMu, chalMu, orderStatus, calls, history>>

\* the injected clock moves forward
Tick ==
  /\ clk < MaxClock
  /\ clk' = clk + 1
  /\ UNCHANGED <<maps, mu, entityMus, orderStatus, th, calls, history>>

\* ---------------------------------------------------------- authorizations
AddAuthorizationReadID(t) ==
  /\ th[t].pc = "body" /\ th[t].op = "AddAuthorization"
  /\ authzMu[th[t].ptr].w = 0
  /\ authzMu' = [authzMu EXCEPT ![th[t].ptr].r = @ + 1]
  /\ th' = [th EXCEPT ![t].pc = "check", ![t].id = Authorization[th[t].ptr].ID,
                        ![t].held = @ \cup {th[t].ptr}]
  /\ UNCHANGED <<maps, clk, mu, orderMu, chalMu, orderStatus, calls, history>>

AddAuthorizationCheck(t) ==
  /\ th[t].pc = "check" /\ th[t].op = "AddAuthorization"
  /\ IF th[t].id = ""
       THEN /\ Return(t, 0, "EmptyIdentifier", Nil)
            /\ UNCHANGED authzMu
       ELSE /\ authzMu' = [authzMu EXCEPT ![th[t].ptr].r = @ - 1]
            /\ IF th[t].id \in DOMAIN authorizationsByID
                 THEN th' = [th EXCEPT ![t].pc = "ret", ![t].n = 0,
                                       ![t].err = "AlreadyExists",
                                       ![t].held = @ \ {th[t].ptr}]
                 ELSE th' = [th EXCEPT ![t].pc = "insert", ![t].seen = authorizationsByID,
                                       ![t].held = @ \ {th[t].ptr}]
  /\ UNCHANGED <<maps, clk, mu, orderMu, chalMu, orderStatus, calls, history>>

AddAuthorizationInsert(t) ==
  /\ th[t].pc = "insert" /\ th[t].op = "AddAuthorization"
  /\ LET new == Put(th[t].seen, th[t].id, th[t].ptr) IN
       /\ authorizationsByID' = new
       /\ Return(t, Size(new), NoErr, Nil)
       /\ added' = [added EXCEPT !["authz"] = Record(@, th[t].id, th[t].ptr)]
       /\ nAdded' = [nAdded EXCEPT !["authz"] = @ + 1]
  /\ UNCHANGED <<accountsByID, ordersByID, challengesByID, certificatesByID,
                 clk, mu, entityMus, orderStatus, calls, revoked>>

GetAuthorizationByID(t) ==
  /\ th[t].pc = "body" /\ th[t].op = "GetAuthorizationByID"
  /\ Return(t, 0, NoErr, Lookup(authorizationsByID, th[t].id))
  /\ UNCHANGED <<maps, clk, mu, entityMus, orderStatus, calls, history>>

\* -------------------------------------------------------------- challenges
\* AddChallenge: chal.RLock() and the read of chal.ID
AddChallengeReadID(t) ==
  /\ th[t].pc = "body" /\ th[t].op = "AddChallenge"
  /\ chalMu[th[t].ptr].w = 0
  /\ chalMu' = [chalMu EXCEPT ![th[t].ptr].r = @ + 1]
  /\ th' = [th EXCEPT ![t].pc = "check", ![t].id = Challenge[th[t].ptr].ID,
                        ![t].held = @ \cup {th[t].ptr}]
  /\ UNCHANGED <<maps, clk, mu, orderMu, authzMu, orderStatus, calls, history>>

\* AddChallenge: chal.RUnlock() first, then the empty-ID and presence tests
AddChallengeCheck(t) ==
  /\ th[t].pc = "check" /\ th[t].op = "AddChallenge"
  /\ chalMu' = [chalMu EXCEPT ![th[t].ptr].r = @ - 1]
  /\ IF th[t].id = ""
       THEN th' = [th EXCEPT ![t].pc = "ret", ![t].n = 0,
                             ![t].err = "EmptyIdentifier",
                             ![t].held = @ \ {th[t].ptr}]
       ELSE IF th[t].id \in DOMAIN challengesByID
         THEN th' = [th EXCEPT ![t].pc = "ret", ![t].n = 0,
                               ![t].err = "AlreadyExists",
                               ![t].held = @ \ {th[t].ptr}]
         ELSE th' = [th EXCEPT ![t].pc = "insert", ![t].seen = challengesByID,
                               ![t].held = @ \ {th[t].ptr}]
  /\ UNCHANGED <<maps, clk, mu, orderMu, authzMu, orderStatus, calls, history>>

AddChallengeInsert(t) ==
  /\ th[t].pc = "insert" /\ th[t].op = "AddChallenge"
  /\ LET new == Put(th[t].seen, th[t].id, th[t].ptr) IN
       /\ challengesByID' = new
       /\ Return(t, Size(new), NoErr, Nil)
       /\ added' = [added EXCEPT !["challenge"] = Record(@, th[t].id, th[t].ptr)]
       /\ nAdded' = [nAdded EXCEPT !["challenge"] = @ + 1]
  /\ UNCHANGED <<accountsByID, ordersByID, authorizationsByID, certificatesByID,
                 clk, mu, entityMus, orderStatus, calls, revoked>>

GetChallengeByID(t) ==
  /\ th[t].pc = "body" /\ th[t].op = "GetChallengeByID"
  /\ Return(t, 0, NoErr, Lookup(challengesByID, th[t].id))
  /\ UNCHANGED <<maps, clk, mu, entityMus, orderStatus, calls, history>>

\* ------------------------------------------------------------ certificates
AddCertificateCheck(t) ==
  /\ th[t].pc = "body" /\ th[t].op = "AddCertificate"
  /\ LET certID == Certificate[th[t].ptr].ID IN
       IF certID = ""
         THEN Return(t, 0, "EmptyIdentifier", Nil)
       ELSE IF certID \in DOMAIN certificatesByID
         THEN Return(t, 0, "AlreadyExists", Nil)
       ELSE th' = [th EXCEPT ![t].pc = "insert", ![t].seen = certificatesByID]
  /\ UNCHANGED <<maps, clk, mu, entityMus, orderStatus, calls, history>>

AddCertificateInsert(t) ==
  /\ th[t].pc = "insert" /\ th[t].op = "AddCertificate"
  /\ LET certID == Certificate[th[t].ptr].ID
         new == Put(th[t].seen, certID, th[t].ptr) IN
       /\ certificatesByID' = new
       /\ Return(t, Size(new), NoErr, Nil)
       /\ added' = [added EXCEPT !["certificate"] = Record(@, certID, th[t].ptr)]
       /\ nAdded' = [nAdded EXCEPT !["certificate"] = @ + 1]
  /\ UNCHANGED <<accountsByID, ordersByID, authorizationsByID, challengesByID,
                 clk, mu, entityMus, orderStatus, calls, revoked>>

GetCertificateByID(t) ==
  /\ th[t].pc = "body" /\ th[t].op = "GetCertificateByID"
  /\ Return(t, 0, NoErr, Lookup(certificatesByID, th[t].id))
  /\ UNCHANGED <<maps, clk, mu, entityMus, orderStatus, calls, history>>

\* reflect.DeepEqual on two []byte: both nil, or both non-nil with the same
\* length and the same bytes
DeepEqual(x, y) == x.isNil = y.isNil /\ x.bytes = y.bytes

\* explicit byte comparison (bytes.Equal): the same length and the same bytes
BytesEqual(x, y) == x.bytes = y.bytes

\* the range loop visits the map in an unspecified order: any matching
\* certificate can be the first match
GetCertificateByDER(t) ==
  /\ th[t].pc = "body" /\ th[t].op = "GetCertificateByDER"
  /\ LET matches == {id \in DOMAIN certificatesByID :
                       DeepEqual(Certificate[certificatesByID[id]].DER, th[t].der)} IN
       IF matches = {}
         THEN Return(t, 0, NoErr, Nil)
         ELSE \E id \in matches : Return(t, 0, NoErr, certificatesByID[id])
  /\ UNCHANGED <<maps, clk, mu, entityMus, orderStatus, calls, history>>

\* RevokeCertificate deleting the entry only if it is the given certificate
RevokeCertificateIfSame(t) ==
  /\ th[t].pc = "body" /\ th[t].op = "RevokeCertificate"
  /\ LET certID == Certificate[th[t].ptr].ID IN
       IF Lookup(certificatesByID, certID) = th[t].ptr
         THEN /\ certificatesByID' = Delete(certificatesByID, certID)
              /\ added' = [added EXCEPT !["certificate"] = Delete(@, certID)]
         ELSE UNCHANGED <<certificatesByID, added>>
  /\ revoked' = [revoked EXCEPT ![th[t].ptr] = @ + 1]
  /\ Return(t, 0, NoErr, Nil)
  /\ UNCHANGED <<accountsByID, ordersByID, authorizationsByID, challengesByID,
                 clk, mu, entityMus, orderStatus, calls, nAdded>>

RevokeCertificate(t) ==
  /\ th[t].pc = "body" /\ th[t].op = "RevokeCertificate"
  /\ certificatesByID' = Delete(certificatesByID, Certificate[th[t].ptr].ID)
  /\ added' = [added EXCEPT !["certificate"] = Delete(@, Certificate[th[t].ptr].ID)]
  /\ revoked' = [revoked EXCEPT ![th[t].ptr] = @ + 1]
  /\ Return(t, 0, NoErr, Nil)
  /\ UNCHANGED <<accountsByID, ordersByID, authorizationsByID, challengesByID,
                 clk, mu, entityMus, orderStatus, calls, nAdded>>

\* ------------------------------------------------------ the specifications
Call(op, ptr, id, der) == [op |-> op, ptr |-> ptr, id |-> id, der |-> der]

\* the replacement accounts handed to UpdateAccountByID (a nil pointer too)
UpdatePtrs == {Nil, "acctA2", "acctAN", "acctB"}

AccountCalls ==
  {Call("AddAccount", p, "", NilBytes) : p \in AccountPtrs}
  \cup {Call("GetAccountByID", Nil, i, NilBytes) : i \in LookupIDs}
  \cup {Call("UpdateAccountByID", p, i, NilBytes) : p \in UpdatePtrs, i \in LookupIDs}

OrderCalls ==
  {Call("AddOrder", p, "", NilBytes) : p \in OrderPtrs}
  \cup {Call("GetOrderByID", Nil, i, NilBytes) : i \in LookupIDs}

AuthorizationCalls ==
  {Call("AddAuthorization", p, "", NilBytes) : p \in AuthorizationPtrs}
  \cup {Call("GetAuthorizationByID", Nil, i, NilBytes) : i \in LookupIDs}

ChallengeCalls ==
  {Call("AddChallenge", p, "", NilBytes) : p \in ChallengePtrs}
  \cup {Call("GetChallengeByID", Nil, i, NilBytes) : i \in LookupIDs}

CertificateCalls ==
  {Call("AddCertificate", p, "", NilBytes) : p \in CertificatePtrs}
  \cup {Call("RevokeCertificate", p, "", NilBytes) : p \in CertificatePtrs}
  \cup {Call("GetCertificateByID", Nil, i, NilBytes) : i \in LookupIDs}
  \cup {Call("GetCertificateByDER", Nil, "", d) : d \in Queries}

AllCalls == AccountCalls \cup OrderCalls \cup AuthorizationCalls
              \cup ChallengeCalls \cup CertificateCalls

\* some thread starts one of the calls cs, while fewer than max were started
Start(cs, max) ==
  /\ calls < max
  /\ \E t \in Threads : \E c \in cs : Begin(t, c.op, c.ptr, c.id, c.der)

AccountStep(t) ==
  \/ GetAccountByID(t)
  \/ UpdateAccountByID(t)
  \/ AddAccountCheck(t)
  \/ AddAccountInsert(t)

OrderStep(t) ==
  \/ AddOrderReadID(t)
  \/ AddOrderCheck(t)
  \/ AddOrderInsert(t)
  \/ GetOrderByIDLookup(t)
  \/ GetOrderByIDLock(t)
  \/ GetOrderByIDWrite(t)
  \/ GetOrderByIDUnlock(t)

AuthorizationStep(t) ==
  \/ AddAuthorizationReadID(t)
  \/ AddAuthorizationCheck(t)
  \/ AddAuthorizationInsert(t)
  \/ GetAuthorizationByID(t)

ChallengeStep(t) ==
  \/ AddChallengeReadID(t)
  \/ AddChallengeCheck(t)
  \/ AddChallengeInsert(t)
  \/ GetChallengeByID(t)

CertificateStep(t) ==
  \/ AddCertificateCheck(t)
  \/ AddCertificateInsert(t)
  \/ GetCertificateByID(t)
  \/ GetCertificateByDER(t)
  \/ RevokeCertificate(t)

\* the calls of the callers that use all five collections
MainCalls ==
  {c \in AllCalls :
     /\ c.ptr \notin {"acctE", "acctC", "ordM", "crtC"}
     /\ c.op = "UpdateAccountByID" => c.ptr \in {Nil, "acctA2"}
     /\ c.op = "RevokeCertificate" => c.ptr # "crtE"
     /\ c.op = "GetCertificateByDER" => c.der = Bytes(<<1, 2>>)
     /\ c.op \in ReadOps \ {"GetAccountByID"} => c.id # "b"}

\* any callers, calls on all five collections, a clock that stands still
Next ==
  \/ Start(MainCalls, MaxCalls)
  \/ \E t \in Threads : Lock(t) \/ RLock(t) \/ Unlock(t) \/ RUnlock(t)
  \/ \E t \in Threads : AccountStep(t)
  \/ \E t \in Threads : OrderStep(t)
  \/ \E t \in Threads : AuthorizationStep(t)
  \/ \E t \in Threads : ChallengeStep(t)
  \/ \E t \in Threads : CertificateStep(t)

Spec == Init /\ [][Next]_vars

\* callers that use the certificates only
CertNext ==
  \/ Start(CertificateCalls, DeepCalls)
  \/ \E t \in Threads : Lock(t) \/ RLock(t) \/ Unlock(t) \/ RUnlock(t)
  \/ \E t \in Threads : CertificateStep(t)

CertSpec == Init /\ [][CertNext]_vars

\* callers that use the orders only, and the clock
OrderNext ==
  \/ Start(OrderCalls, DeepCalls)
  \/ \E t \in Threads : Lock(t) \/ RLock(t) \/ Unlock(t) \/ RUnlock(t)
  \/ \E t \in Threads : OrderStep(t)
  \/ Tick

OrderSpec == Init /\ [][OrderNext]_vars

\* callers that use the accounts only
AccountNext ==
  \/ Start(AccountCalls, DeepCalls)
  \/ \E t \in Threads : Lock(t) \/ RLock(t) \/ Unlock(t) \/ RUnlock(t)
  \/ \E t \in Threads : AccountStep(t)

AccountSpec == Init /\ [][AccountNext]_vars

\* the calls of Spec on an empty and on one new ID of each collection (a
\* repeated Add fails with AlreadyExists)
LiveCalls ==
  {c \in MainCalls :
     /\ c.ptr \in {Nil, "ordE", "ordA", "azE", "azA", "chA", "acctA", "crtA"}
     /\ c.id # "b"}

\* a step of thread t inside a call it has started
Step(t) ==
  \/ Lock(t) \/ RLock(t) \/ Unlock(t) \/ RUnlock(t)
  \/ AccountStep(t) \/ OrderStep(t) \/ AuthorizationStep(t)
  \/ ChallengeStep(t) \/ CertificateStep(t)

FairNext ==
  \/ Start(LiveCalls, MaxCalls)
  \/ \E t \in Threads : Step(t)

\* callers of all the methods, with every thread that
\* can take a step of its call taking one eventually (the Go scheduler runs
\* every runnable goroutine)
FairSpec ==
  Init /\ [][FairNext]_vars /\ \A t \in Threads : WF_vars(Step(t))

\* a thread calls AddAccount with a valid account whose ID is neither stored
\* nor the ID of a call in progress
StartDistinctAdd ==
  /\ calls < NumThreads
  /\ \E t \in Threads : \E p \in AccountPtrs :
       /\ Account[p].ID # "" /\ Account[p].Key # Nil
       /\ Account[p].ID \notin DOMAIN accountsByID
       /\ \A u \in Threads : th[u].pc # "idle" => Account[th[u].ptr].ID # Account[p].ID
       /\ Begin(t, "AddAccount", p, "", NilBytes)

\* concurrent AddAccount calls with pairwise distinct new IDs
ConcAddNext ==
  \/ StartDistinctAdd
  \/ \E t \in Threads : Lock(t) \/ Unlock(t)
  \/ \E t \in Threads : AddAccountCheck(t) \/ AddAccountInsert(t)

ConcAddSpec == Init /\ [][ConcAddNext]_vars

\* ------------------------------------------------------------- the claims
AddOps == {"AddAccount", "AddOrder", "AddAuthorization", "AddChallenge",
           "AddCertificate"}

\* the ID of the entity an Add call was given
ArgID(c) ==
  CASE c.op = "AddAccount" -> Account[c.ptr].ID
    [] c.op = "AddOrder" -> Order[c.ptr].ID
    [] c.op = "AddAuthorization" -> Authorization[c.ptr].ID
    [] c.op = "AddChallenge" -> Challenge[c.ptr].ID
    [] c.op = "AddCertificate" -> Certificate[c.ptr].ID
    [] c.op = "RevokeCertificate" -> Certificate[c.ptr].ID
    [] OTHER -> c.id

\* thread t is inside an Add call whose entity has the ID id
Adding(t, id) == th[t].op \in AddOps /\ th[t].pc # "idle" /\ ArgID(th[t]) = id

GetByIDOps == {"GetAccountByID", "GetOrderByID", "GetAuthorizationByID",
               "GetChallengeByID", "GetCertificateByID"}

\* the collection an operation works on, and its name in the history
KindOf(op) ==
  CASE op \in {"AddAccount", "GetAccountByID", "UpdateAccountByID"} -> "account"
    [] op \in {"AddOrder", "GetOrderByID"} -> "order"
    [] op \in {"AddAuthorization", "GetAuthorizationByID"} -> "authz"
    [] op \in {"AddChallenge", "GetChallengeByID"} -> "challenge"
    [] OTHER -> "certificate"

Coll(op) ==
  CASE KindOf(op) = "account" -> accountsByID
    [] KindOf(op) = "order" -> ordersByID
    [] KindOf(op) = "authz" -> authorizationsByID
    [] KindOf(op) = "challenge" -> challengesByID
    [] OTHER -> certificatesByID

\* thread t is in a GetXByID call that has got its result
Got(t) ==
  /\ th[t].op \in GetByIDOps
  /\ th[t].pc \in {"ret", "ounlock"}
  /\ th[t].err = NoErr

\* C1: a GetXByID(id) that returns, returns e for every e whose AddX succeeded
\* under id with no UpdateAccountByID or RevokeCertificate on id since: the
\* same entity, not absent and not another one.
C1_GetReturnsAdded ==
  \A t \in Threads :
    Got(t) /\ th[t].id \in DOMAIN added[KindOf(th[t].op)] =>
      \A e \in added[KindOf(th[t].op)][th[t].id] : th[t].res = e

\* GetOrderByID has got the order that was added under the ID it looked up
C1_Witness ==
  \E t \in Threads :
    /\ Got(t) /\ th[t].op = "GetOrderByID"
    /\ th[t].id \in DOMAIN added["order"]
    /\ th[t].res \in added["order"][th[t].id]

\* the step in which thread t's Add call, given an entity with ID id, leaves
\* its tests (for the insertion or for an error return)
Tested(t, id) ==
  /\ Adding(t, id)
  /\ th[t].pc \in {"body", "check"}
  /\ th'[t].pc \in {"insert", "ret"}

\* thread t's call fails: it sets the results (0, err) and changes no map
Fails(t, err) ==
  /\ th'[t].pc = "ret" /\ th'[t].n = 0 /\ th'[t].err = err
  /\ maps' = maps

\* C2 as stated: an AddX whose entity's ID is a key of the collection fails
\* with AlreadyExists, returns 0 and leaves the collection as it is.
C2_DuplicateRejected ==
  [][\A t \in Threads : \A id \in DOMAIN Coll(th[t].op) :
       Tested(t, id) => Fails(t, "AlreadyExists")]_vars

\* C2 amended: an AddX whose entity's ID is a key of the collection fails,
\* returns 0 and leaves the collection as it is; the error is AlreadyExists,
\* except for an account with a nil key, where it is MissingRequiredField.
C2_DuplicateRejectedAmended ==
  [][\A t \in Threads : \A id \in DOMAIN Coll(th[t].op) :
       Tested(t, id) =>
         IF th[t].op = "AddAccount" /\ Account[th[t].ptr].Key = Nil
           THEN Fails(t, "MissingRequiredField")
           ELSE Fails(t, "AlreadyExists")]_vars

\* a second account with the ID of a stored one is being rejected, and the
\* stored one is still the first
C2_Witness ==
  \E t \in Threads :
    /\ th[t].op = "AddAccount" /\ th[t].pc = "ret" /\ th[t].err = "AlreadyExists"
    /\ th[t].ptr = "acctA2"
    /\ accountsByID["a"] = "acctA"

\* C3: an AddX whose entity has an empty ID never gets to the insertion, its
\* results are (0, EmptyIdentifier) whatever the key and the store are, and
\* no step of the call changes any of the five collections.
C3_EmptyIDRejected ==
  [][\A t \in Threads :
       Adding(t, "") =>
         /\ th'[t] # th[t] => maps' = maps
         /\ th'[t].pc # "insert"
         /\ th'[t].pc = "ret" => th'[t].n = 0 /\ th'[t].err = "EmptyIdentifier"]_vars

\* an empty-ID account with a nil key is being rejected by a store that
\* holds an account
C3_Witness ==
  \E t \in Threads :
    /\ th[t].op = "AddAccount" /\ th[t].ptr = "acctEN" /\ th[t].pc = "ret"
    /\ th[t].err = "EmptyIdentifier"
    /\ accountsByID # EmptyMap

\* C4: AddAccount with a non-empty ID and a nil key fails with
\* MissingRequiredField and changes no map, whether or not the ID is stored.
C4_NilKeyRejected ==
  [][\A t \in Threads :
       /\ th[t].op = "AddAccount" /\ th[t].pc = "body" /\ th'[t].pc # "body"
       /\ Account[th[t].ptr].ID # "" /\ Account[th[t].ptr].Key = Nil
       => Fails(t, "MissingRequiredField")]_vars

\* an account with a nil key and the ID of a stored account is being rejected
\* for its key
C4_Witness ==
  \E t \in Threads :
    /\ th[t].op = "AddAccount" /\ th[t].pc = "ret" /\ th[t].ptr = "acctAN"
    /\ th[t].err = "MissingRequiredField"
    /\ "a" \in DOMAIN accountsByID

\* C5: UpdateAccountByID(id, acct) fails with NotFound and changes nothing
\* when GetAccountByID(id) would return no account; otherwise it succeeds,
\* GetAccountByID(id) would return acct afterwards, the keys of the accounts
\* and the entries under the other keys are as before.
C5_UpdateReplaces ==
  [][\A t \in Threads :
       th[t].op = "UpdateAccountByID" /\ th[t].pc = "body" /\ th'[t].pc # "body" =>
         IF Lookup(accountsByID, th[t].id) = Nil
           THEN Fails(t, "NotFound")
           ELSE /\ th'[t].pc = "ret" /\ th'[t].err = NoErr
                /\ Lookup(accountsByID', th[t].id) = th[t].ptr
                /\ DOMAIN accountsByID' = DOMAIN accountsByID
                /\ \A k \in DOMAIN accountsByID \ {th[t].id} :
                     accountsByID'[k] = accountsByID[k]
                /\ <<ordersByID, authorizationsByID, challengesByID,
                     certificatesByID>>' =
                   <<ordersByID, authorizationsByID, challengesByID,
                     certificatesByID>>]_vars

\* an update has replaced the stored account by another one
C5_Witness ==
  \E t \in Threads :
    /\ th[t].op = "UpdateAccountByID" /\ th[t].pc = "ret" /\ th[t].err = NoErr
    /\ th[t].ptr = "acctA2" /\ th[t].id = "a"
    /\ accountsByID = [x \in {"a"} |-> "acctA2"]
    /\ nAdded["account"] = 1

\* C10: an AddX that succeeds returns the size of its collection right after
\* the insertion, which is the size before plus one, and for accounts,
\* orders, authorizations and challenges the number of successful AddX so
\* far; an AddX that fails returns 0.
C10_ReturnsNewSize ==
  [][\A t \in Threads :
       th'[t].op \in AddOps /\ th'[t].pc = "ret" /\ th[t].pc # "ret" =>
         IF th'[t].err = NoErr
           THEN /\ th'[t].n = Size(Coll(th[t].op)) + 1
                /\ th'[t].n = Size(Coll(th[t].op)')
                /\ th[t].op # "AddCertificate" => th'[t].n = nAdded'[KindOf(th[t].op)]
           ELSE th'[t].n = 0]_vars

\* the second successful AddAccount returns 2
C10_Witness ==
  \E t \in Threads :
    /\ th[t].op = "AddAccount" /\ th[t].pc = "ret" /\ th[t].err = NoErr
    /\ th[t].n = 2 /\ nAdded["account"] = 2

\* C6: RevokeCertificate(c) reports no error and leaves no certificate under
\* c's ID, whether or not one was stored there (so a second call, or a call
\* for a certificate never added, changes nothing); the certificates under
\* the other IDs and the other collections are untouched.
C6_RevokeIdempotent ==
  [][\A t \in Threads :
       th[t].op = "RevokeCertificate" /\ th[t].pc = "body" /\ th'[t].pc # "body" =>
         LET certID == Certificate[th[t].ptr].ID IN
           /\ th'[t].pc = "ret" /\ th'[t].err = NoErr
           /\ Lookup(certificatesByID', certID) = Nil
           /\ DOMAIN certificatesByID' = DOMAIN certificatesByID \ {certID}
           /\ \A k \in DOMAIN certificatesByID' :
                certificatesByID'[k] = certificatesByID[k]
           /\ certID \notin DOMAIN certificatesByID =>
                certificatesByID' = certificatesByID
           /\ <<accountsByID, ordersByID, authorizationsByID, challengesByID>>' =
              <<accountsByID, ordersByID, authorizationsByID, challengesByID>>]_vars

\* the second revocation of a certificate returns, with a certificate
\* under another ID still stored
C6_Witness ==
  \E t \in Threads :
    /\ th[t].op = "RevokeCertificate" /\ th[t].pc = "ret" /\ th[t].err = NoErr
    /\ revoked[th[t].ptr] = 2
    /\ Lookup(certificatesByID, Certificate[th[t].ptr].ID) = Nil
    /\ certificatesByID # EmptyMap

\* C7: GetCertificateByDER(der) returns a stored certificate whose DER has
\* the bytes of der whenever one is stored, and no certificate when none is.
C7_DERLookupByBytes ==
  \A t \in Threads :
    th[t].op = "GetCertificateByDER" /\ th[t].pc = "ret" =>
      LET stored == {certificatesByID[id] : id \in DOMAIN certificatesByID}
          equal == {c \in stored : BytesEqual(Certificate[c].DER, th[t].der)} IN
        IF equal # {} THEN th[t].res \in equal ELSE th[t].res = Nil

\* C8: AddAccount calls with pairwise distinct new IDs all succeed, and
\* whenever all of them have returned, the accounts are as many as the calls
\* and each added account is the one stored under its ID.
C8_NoLostAdd ==
  /\ \A t \in Threads : th[t].pc = "ret" => th[t].err = NoErr
  /\ (\A t \in Threads : th[t].pc = "idle") =>
       /\ nAdded["account"] = calls
       /\ Size(accountsByID) = calls
       /\ DOMAIN added["account"] = DOMAIN accountsByID
       /\ \A id \in DOMAIN accountsByID : added["account"][id] = {accountsByID[id]}

\* as many calls as there are threads have returned, and the store holds as
\* many accounts
C8_Witness ==
  /\ \A t \in Threads : th[t].pc = "idle"
  /\ calls = NumThreads
  /\ Size(accountsByID) = NumThreads

\* C9: GetOrderByID stores in the order the status that GetStatus gives for
\* it at the clock reading the call took: 'pending' for a reading before the
\* expiry, 'expired' for one from the expiry on. It does so before it
\* returns the order, and no step of the call changes another order's
\* status or any map.
C9_ReadWritesStatus ==
  [][\A t \in Threads :
       th[t].op = "GetOrderByID" =>
         /\ th'[t] # th[t] => maps' = maps
         /\ th[t].pc = "write" /\ th'[t].pc # "write" =>
              LET o == ordersByID[th[t].id] IN
                /\ orderStatus'[o] = GetStatus(o, th[t].now).status
                /\ orderStatus'[o] =
                     (IF th[t].now < Order[o].Expires THEN "pending" ELSE "expired")
                /\ \A p \in OrderPtrs \ {o} : orderStatus'[p] = orderStatus[p]
                /\ th'[t].res = o
         /\ th'[t] # th[t] /\ th[t].pc # "write" => orderStatus' = orderStatus]_vars

\* a call that read the clock after the expiry has left 'expired' in an
\* order that was 'pending'
C9_Witness ==
  \E t \in Threads :
    /\ th[t].op = "GetOrderByID" /\ th[t].pc = "ounlock"
    /\ th[t].res # Nil /\ th[t].now >= Order[th[t].res].Expires
    /\ Order[th[t].res].Status = "pending"
    /\ orderStatus[th[t].res] = "expired"

\* C11: when GetStatus fails for the order stored under id, GetOrderByID(id)
\* panics: it returns no order; from there on the call writes no order status
\* and takes no order's lock, and its one remaining step is the deferred
\* m.RUnlock(), after which the call no longer holds the store lock.
C11_PanicOnStatusError ==
  [][\A t \in Threads :
       th[t].op = "GetOrderByID" =>
         /\ ( /\ th[t].pc = "body" /\ th'[t].pc # "body"
              /\ th[t].id \in DOMAIN ordersByID
              /\ GetStatus(ordersByID[th[t].id], clk).err # NoErr )
            => /\ th'[t].pc = "ret" /\ th'[t].err = "panic" /\ th'[t].res = Nil
               /\ orderStatus' = orderStatus /\ orderMu' = orderMu
         /\ th[t].err = "panic" /\ th'[t] # th[t]
            => /\ th'[t].pc = "idle"
               /\ t \notin mu'.r /\ mu'.w # t
               /\ orderStatus' = orderStatus /\ orderMu' = orderMu]_vars

\* a GetOrderByID has panicked on a malformed order; the order has the status
\* it was added with and its lock is free
C11_Witness ==
  \E t \in Threads :
    /\ th[t].op = "GetOrderByID" /\ th[t].pc = "ret" /\ th[t].err = "panic"
    /\ Order[th[t].ptr].Malformed
    /\ orderStatus[th[t].ptr] = Order[th[t].ptr].Status
    /\ orderMu[th[t].ptr] = FreeEntityMu

\* C12: an account, order, authorization or challenge that GetXByID finds
\* under an ID is found under it in every later state, and a certificate
\* stops being found only by a RevokeCertificate on its ID.
C12_OnlyCertificatesLeave ==
  [][/\ \A op \in {"GetAccountByID", "GetOrderByID", "GetAuthorizationByID",
                   "GetChallengeByID"} :
          \A id \in LookupIDs :
            Lookup(Coll(op), id) # Nil => Lookup(Coll(op)', id) # Nil
     /\ \A id \in DOMAIN certificatesByID :
          Lookup(certificatesByID', id) = Nil =>
            \E t \in Threads :
              /\ th[t].op = "RevokeCertificate" /\ th[t].pc = "body"
              /\ th'[t].pc = "ret"
              /\ Certificate[th[t].ptr].ID = id]_vars

\* C13: a thread outside any call holds neither the store lock nor the read
\* lock of an entity, and the lock of an entity that no call in progress was
\* given is free.
C13_LocksReleased ==
  /\ \A t \in Threads :
       th[t].pc = "idle" => th[t].held = {} /\ mu.w # t /\ t \notin mu.r
  /\ \A o \in OrderPtrs :
       (\A t \in Threads : th[t].pc = "idle" \/ th[t].ptr # o) =>
         orderMu[o] = FreeEntityMu
  /\ \A a \in AuthorizationPtrs :
       (\A t \in Threads : th[t].pc = "idle" \/ th[t].ptr # a) =>
         authzMu[a] = FreeEntityMu
  /\ \A c \in ChallengePtrs :
       (\A t \in Threads : th[t].pc = "idle" \/ th[t].ptr # c) =>
         chalMu[c] = FreeEntityMu

\* thread t is in the critical section of its call: it holds the store lock
InCS(t) == th[t].pc \notin {"idle", "lock"}

\* C14: while a write operation is in its critical section, no other
\* operation is in its own; read operations can be in theirs together.
C14_StoreMutualExclusion ==
  \A t \in Threads : \A u \in Threads \ {t} :
    InCS(t) /\ th[t].op \in WriteOps => ~InCS(u)

\* two read operations are in their critical sections at once
C14_Witness ==
  \E t \in Threads : \E u \in Threads \ {t} :
    /\ InCS(t) /\ th[t].op \in ReadOps
    /\ InCS(u) /\ th[u].op \in ReadOps
    /\ mu.r = {t, u}

\* C15: a thread holds an order's exclusive lock only while it holds the
\* store lock in shared mode; a thread that requests the store lock holds no
\* entity's lock, read or exclusive; no two GetOrderByID calls are past
\* order.Lock() of the same order.
C15_TwoLevelLocking ==
  /\ \A o \in OrderPtrs : \A t \in Threads :
       orderMu[o].w = t => t \in mu.r /\ mu.w = 0
  /\ \A t \in Threads :
       th[t].pc = "lock" =>
         th[t].held = {} /\ \A o \in OrderPtrs : orderMu[o].w # t
  /\ \A o \in OrderPtrs :
       Cardinality({t \in Threads : /\ th[t].op = "GetOrderByID"
                                    /\ th[t].pc \in {"write", "ounlock"}
                                    /\ th[t].ptr = o}) <= 1

\* C16: every account GetAccountByID(id) returns has a key and has the ID id,
\* which is not empty.
C16_StoredAccountsValid ==
  \A t \in Threads :
    th[t].op = "GetAccountByID" /\ th[t].pc = "ret" /\ th[t].res # Nil =>
      /\ Account[th[t].res].Key # Nil
      /\ Account[th[t].res].ID # ""
      /\ Account[th[t].res].ID = th[t].id

\* C17: with the clock moving forward only, the status stored in an order
\* never goes from 'expired' back to another status.
C17_StatusNeverGoesBack ==
  [][\A o \in OrderPtrs :
       orderStatus[o] = "expired" => orderStatus'[o] = "expired"]_vars

\* the valid entities with the ID "a", two of each kind
SameIDAdds ==
  {Call("AddAccount", p, "", NilBytes) : p \in {"acctA", "acctA2"}}
  \cup {Call("AddOrder", p, "", NilBytes) : p \in {"ordA", "ordA2"}}
  \cup {Call("AddAuthorization", p, "", NilBytes) : p \in {"azA", "azA2"}}
  \cup {Call("AddChallenge", p, "", NilBytes) : p \in {"chA", "chA2"}}
  \cup {Call("AddCertificate", p, "", NilBytes) : p \in {"crtA", "crtA2"}}

\* a thread calls AddX with an entity with the ID "a"; all the calls of a
\* behaviour are on one collection
StartSameAdd ==
  /\ calls < NumThreads
  /\ \E t \in Threads : \E c \in SameIDAdds :
       /\ \A u \in Threads : th[u].pc # "idle" => th[u].op = c.op
       /\ \A k \in Kinds \ {KindOf(c.op)} : nAdded[k] = 0
       /\ Begin(t, c.op, c.ptr, c.id, c.der)

\* concurrent AddX calls with one and the same new ID
SameAddNext ==
  \/ StartSameAdd
  \/ \E t \in Threads : Lock(t) \/ Unlock(t)
  \/ \E t \in Threads : AddAccountCheck(t) \/ AddAccountInsert(t)
  \/ \E t \in Threads : AddOrderReadID(t) \/ AddOrderCheck(t) \/ AddOrderInsert(t)
  \/ \E t \in Threads : \/ AddAuthorizationReadID(t) \/ AddAuthorizationCheck(t)
                        \/ AddAuthorizationInsert(t)
  \/ \E t \in Threads : \/ AddChallengeReadID(t) \/ AddChallengeCheck(t)
                        \/ AddChallengeInsert(t)
  \/ \E t \in Threads : AddCertificateCheck(t) \/ AddCertificateInsert(t)

SameAddSpec == Init /\ [][SameAddNext]_vars

\* the collection of a kind
KindColl(k) ==
  CASE k = "account" -> accountsByID
    [] k = "order" -> ordersByID
    [] k = "authz" -> authorizationsByID
    [] k = "challenge" -> challengesByID
    [] OTHER -> certificatesByID

\* C18: of the AddX calls with one and the same new ID, one succeeds
\* (returning 1) and every other one fails with AlreadyExists; whenever all
\* calls have returned the collection has one entry, the entity of the call
\* that succeeded.
C18_OneAddWins ==
  /\ \A t \in Threads :
       th[t].pc = "ret" =>
         \/ th[t].err = NoErr /\ th[t].n = 1
         \/ th[t].err = "AlreadyExists" /\ th[t].n = 0
  /\ \A k \in Kinds : nAdded[k] <= 1
  /\ (calls >= 1 /\ \A t \in Threads : th[t].pc = "idle") =>
       \E k \in Kinds :
         /\ nAdded[k] = 1
         /\ DOMAIN KindColl(k) = {"a"}
         /\ added[k] = [x \in {"a"} |-> {KindColl(k)["a"]}]

\* as many AddOrder calls as there are threads have returned and one order
\* is stored
C18_Witness ==
  /\ \A t \in Threads : th[t].pc = "idle"
  /\ calls = NumThreads
  /\ nAdded["order"] = 1
  /\ Size(ordersByID) = 1

\* C19: for every stored certificate and every query, reflect.DeepEqual and
\* the comparison of the bytes agree, so GetCertificateByDER has the same
\* possible results with either.
C19_DeepEqualIsBytesEqual ==
  \A q \in Queries :
    {id \in DOMAIN certificatesByID :
       DeepEqual(Certificate[certificatesByID[id]].DER, q)} =
    {id \in DOMAIN certificatesByID :
       BytesEqual(Certificate[certificatesByID[id]].DER, q)}

====
